---- MODULE Spec2Model ----
(***************************************************************************)
(* Model of aggregate_takeoffs_landings, the takeoff/landing reconstruction *)
(* of streamlit/pages/2_Takeoffs_&_Landings.py.                              *)
(*                                                                           *)
(* A DataFrame is a sequence of rows (records), in row order.  A Python      *)
(* string is a sequence of one-character strings, so that the f-strings of   *)
(* the code are concatenations and can collide or be sliced as in Python.    *)
(* One action per statement group of the function; pc is the position of    *)
(* the run inside the function.  gdf, toff_land and out are the locals and   *)
(* the result of that run; run2 holds the same for a second run of the      *)
(* function on the same query result df; data is the table built by map().  *)
(***************************************************************************)
EXTENDS Integers, Sequences, FiniteSets, TLC

VARIABLES df, gdf, toff_land, out, pc, data, run2

vars == <<df, gdf, toff_land, out, pc, data, run2>>

(***************************************************************************)
(* Bounds of the input tables.                                               *)
(***************************************************************************)
MaxRows == 4

MaxEnrichRows == 2

MaxTwoRunRows == 2

(***************************************************************************)
(* Strings.                                                                  *)
(***************************************************************************)
Digits == <<"0", "1", "2", "3", "4", "5", "6", "7", "8", "9">>

\* str(n) of a natural number, as the f-string of line 39 formats subflight_nb
RECURSIVE Str(_)
Str(n) == IF n < 10 THEN <<Digits[n + 1]>>
          ELSE Str(n \div 10) \o <<Digits[(n % 10) + 1]>>

\* f"{name} ({code})", the display format of lines 60, 61 and 64
Display(name, code) == name \o <<" ", "(">> \o code \o <<")">>

(***************************************************************************)
(* Reference tables (data/airlines.json, data/airports.json,                 *)
(* data/aircraft.json): a sample of each, as a function from code to entry.  *)
(***************************************************************************)
AFR == <<"A", "F", "R">>
XXX == <<"X", "X", "X">>
A320 == <<"A", "3", "2", "0">>
Z999 == <<"Z", "9", "9", "9">>
TLS == <<"T", "L", "S">>
MAD == <<"M", "A", "D">>
LHR == <<"L", "H", "R">>
XYZ == <<"X", "Y", "Z">>

AIRLINES == (AFR :> <<"A", "i", "r", " ", "F", "r", "a", "n", "c", "e">>)

AIRPORTS == (TLS :> [name |-> <<"T", "o", "u", "l", "o", "u", "s", "e">>, latitude |-> 43, longitude |-> 1])
         @@ (MAD :> [name |-> <<"M", "a", "d", "r", "i", "d">>, latitude |-> 40, longitude |-> -3])
         @@ (LHR :> [name |-> <<"L", "o", "n", "d", "o", "n">>, latitude |-> 51, longitude |-> 0])

AIRCRAFT == (A320 :> <<"A", "i", "r", "b", "u", "s">>)

\* dict.get(key, default)
DictGet(dict, key, default) == IF key \in DOMAIN dict THEN dict[key] ELSE default

(***************************************************************************)
(* The zone polygon of utils.airport_zones(), as a box in whole degrees, and *)
(* the containment test of line 33.                                          *)
(***************************************************************************)
airport_zones == [minx |-> 0, maxx |-> 2, miny |-> 42, maxy |-> 44]

Within(row, zone) ==
    /\ zone.minx < row.longitude /\ row.longitude < zone.maxx
    /\ zone.miny < row.latitude /\ row.latitude < zone.maxy

(***************************************************************************)
(* Input rows.  A row of the query result has the columns the function       *)
(* reads.  The columns other than fr_id, time, position and vertical_speed   *)
(* come together as one of two payloads (known codes, unknown codes).        *)
(***************************************************************************)
InZone == [longitude |-> 1, latitude |-> 43]
OutOfZone == [longitude |-> 5, latitude |-> 43]

Known == [aircraft_code |-> A320, registration |-> <<"F", "1">>,
          origin_airport_iata |-> MAD, destination_airport_iata |-> TLS,
          number |-> <<"A", "F", "1">>, airline_iata |-> <<"A", "F">>,
          callsign |-> <<"A", "F", "R", "1">>, airline_icao |-> AFR]

Unknown == [aircraft_code |-> Z999, registration |-> <<"G", "2">>,
            origin_airport_iata |-> TLS, destination_airport_iata |-> XYZ,
            number |-> <<"X", "X", "2">>, airline_iata |-> <<"X", "X">>,
            callsign |-> <<"X", "X", "X", "2">>, airline_icao |-> XXX]

Ping(fr, t, pos, vs, payload) ==
    [fr_id |-> fr, time |-> t, vertical_speed |-> vs] @@ pos @@ payload

FrA == <<"a">>
FrB == <<"b">>
ABC123 == <<"A", "B", "C", "1", "2", "3">>

\* all tables of at most n rows drawn from the set of rows S
Tables(S, n) == UNION {[1..k -> S] : k \in 0..n}

\* Segmentation family: two aircraft, any row order, gaps of exactly 180 s,
\* 181 s and more, and a ping outside the zone that lies within 180 s of the
\* pings at 180 s and at 361 s and differs from them in every other column.
SegPings ==
    {Ping(fr, t, InZone, 1, Known) : fr \in {FrA, FrB}, t \in {0, 180, 361}}
    \cup {Ping(FrA, 270, OutOfZone, -5, Unknown)}

\* Enrichment family: one aircraft, up to two subflights, vertical speeds of
\* both signs and zero, known and unknown reference codes.
EnrichPings ==
    {Ping(FrA, t, InZone, vs, p) : t \in {0, 361}, vs \in {-1, 0, 1}, p \in {Known, Unknown}}

\* The end-to-end scenario of the documentation and every table obtained by
\* deleting rows from it.
ScenarioTable ==
    << Ping(ABC123, 0, InZone, 500, Known), Ping(ABC123, 30, InZone, 400, Known),
       Ping(ABC123, 60, InZone, 300, Known), Ping(ABC123, 400, InZone, -200, Known),
       Ping(ABC123, 430, InZone, -100, Known) >>

RECURSIVE Keep(_, _)
Keep(t, mask) == IF t = <<>> THEN <<>>
                 ELSE (IF mask[1] THEN <<t[1]>> ELSE <<>>) \o Keep(Tail(t), Tail(mask))

ScenarioTables == {Keep(ScenarioTable, m) : m \in [1..Len(ScenarioTable) -> BOOLEAN]}

InputTables == Tables(SegPings, MaxRows) \cup Tables(EnrichPings, MaxEnrichRows)
               \cup ScenarioTables

(***************************************************************************)
(* Line 32: GeoDataFrame(df, geometry=...) copies a plain DataFrame before   *)
(* it adds the geometry column, so the table passed in is left as it was.    *)
(***************************************************************************)
\* line 32 on a constructor that shares the caller's table: the geometry
\* column is written into df itself
InputSharedWithGeoDataFrame(table) ==
    [i \in 1..Len(table) |->
        table[i] @@ [geometry |-> <<table[i].longitude, table[i].latitude>>]]

InputAfterGeoDataFrame(table) == table

(***************************************************************************)
(* Lines 31-33: keep the rows whose point lies within the zone.              *)
(***************************************************************************)
\* line 33 without the mask
GeoFilteredNothing(table) == table

GeoFiltered(table) == SelectSeq(table, LAMBDA row : Within(row, airport_zones))

(***************************************************************************)
(* Lines 35-36: local civil time.  Europe/Paris is UTC+1 with no summer      *)
(* time for every timestamp of the model (all in January 1970).              *)
(***************************************************************************)
ParisUtcOffset(t) == 3600

ToParis(t) == [epoch |-> t, utcoffset |-> ParisUtcOffset(t)]

HourOf(dt) == ((dt.epoch + dt.utcoffset) \div 3600) % 24

Localized(rows) ==
    [i \in 1..Len(rows) |->
        rows[i] @@ [datetime |-> ToParis(rows[i].time),
                    hour |-> HourOf(ToParis(rows[i].time))]]

(***************************************************************************)
(* Line 37: groupby("fr_id")[["time"]].diff().fillna(0).  diff() subtracts   *)
(* from each row the previous row, in row order, of the same group; the      *)
(* first row of a group has no previous row (NaN) and fillna makes it 0.     *)
(***************************************************************************)
Max(S) == CHOOSE x \in S : \A y \in S : y <= x

Min(S) == CHOOSE x \in S : \A y \in S : x <= y

PrevInGroup(rows, i) == {j \in 1..(i - 1) : rows[j].fr_id = rows[i].fr_id}

PingDeltaT(rows, i) ==
    IF PrevInGroup(rows, i) = {} THEN 0
    ELSE rows[i].time - rows[Max(PrevInGroup(rows, i))].time

(***************************************************************************)
(* Line 38: (ping_delta_t > 3 * 60).cumsum(), a running count over the       *)
(* whole column, in row order.                                               *)
(***************************************************************************)
GapThreshold == 3 * 60

\* line 38 with >= for >, and with the threshold one second late
IsBoundaryAtThreshold(delta) == delta >= GapThreshold

IsBoundaryAboveNextSecond(delta) == delta > GapThreshold + 1

IsBoundary(delta) == delta > GapThreshold

SubflightNb(rows, i) ==
    Cardinality({j \in 1..i : IsBoundary(PingDeltaT(rows, j))})

(***************************************************************************)
(* Line 39: f"{x['fr_id']}_{x['subflight_nb']}"                              *)
(***************************************************************************)
\* line 39 without the fr_id
SubflightIdNumberOnly(fr_id, nb) == Str(nb)

SubflightId(fr_id, nb) == fr_id \o <<"_">> \o Str(nb)

Segmented(rows) ==
    [i \in 1..Len(rows) |->
        rows[i] @@ [ping_delta_t |-> PingDeltaT(rows, i),
                    subflight_nb |-> SubflightNb(rows, i),
                    subflight_id |-> SubflightId(rows[i].fr_id, SubflightNb(rows, i))]]

(***************************************************************************)
(* DataFrame.apply(f, axis=1) on a frame without rows (lines 39 and 79).     *)
(* pandas (1.3 and later, which streamlit's st.connection requires) calls f  *)
(* once on a probe row that has the frame's columns, each holding NaN.  If   *)
(* the call raises, or returns a Series, apply returns an empty DataFrame,   *)
(* and assigning that to a single column raises ValueError; if it returns a  *)
(* scalar, apply returns an empty Series and the assignment succeeds.        *)
(***************************************************************************)
NaN == <<"n", "a", "n">>

Raised == <<"raise">>

\* the probe row; NaN equals no string, so neither "landing" nor "takeoff"
ProbeRow(columns) == [c \in columns |-> IF c = "rwy_event" THEN "nan" ELSE NaN]

ApplyOnEmpty(probeResult) == IF probeResult = Raised THEN "DataFrame" ELSE "Series"

\* line 39 on the probe row: f"{nan}_{nan}", which cannot raise
SubflightIdProbe == NaN \o <<"_">> \o NaN

(***************************************************************************)
(* The run.                                                                  *)
(***************************************************************************)
Init ==
    /\ df \in InputTables
    /\ gdf = <<>>
    /\ toff_land = <<>>
    /\ out = <<>>
    /\ pc = "start"
    /\ data = <<>>
    /\ run2 = [gdf |-> <<>>, toff_land |-> <<>>, out |-> <<>>, pc |-> "start"]

GeoFilter ==
    /\ pc = "start"
    /\ df' = InputAfterGeoDataFrame(df)
    /\ gdf' = GeoFiltered(df)
    /\ pc' = "filtered"
    /\ UNCHANGED <<toff_land, out, data, run2>>

Localize ==
    /\ pc = "filtered"
    /\ gdf' = Localized(gdf)
    /\ pc' = "localized"
    /\ UNCHANGED <<df, toff_land, out, data, run2>>

\* Lines 37-39.  apply(axis=1) of line 39 on a table without rows: see
\* ApplyOnEmpty.
Segment ==
    /\ pc = "localized"
    /\ IF gdf = <<>> /\ ApplyOnEmpty(SubflightIdProbe) = "DataFrame"
       THEN pc' = "error" /\ UNCHANGED gdf
       ELSE pc' = "segmented" /\ gdf' = Segmented(gdf)
    /\ UNCHANGED <<df, toff_land, out, data, run2>>

(***************************************************************************)
(* Lines 40-58: groupby("subflight_id").agg(...): one row per distinct       *)
(* subflight_id, indexed by it; "first" takes the column's value in the      *)
(* first row of the group, "mean" the arithmetic mean over the group's rows. *)
(* No column of the query result holds a null (the scraper stores the text   *)
(* "N/A" for a missing value, cf. line 154), so "first" has nothing to skip. *)
(* The mean is kept exact, as the fraction num/den with den > 0.             *)
(***************************************************************************)
cols == {"fr_id", "aircraft_code", "registration", "time", "origin_airport_iata",
         "destination_airport_iata", "number", "airline_iata", "callsign",
         "airline_icao", "datetime", "hour", "subflight_id"}

SubflightIds(rows) == {rows[i].subflight_id : i \in 1..Len(rows)}

Group(rows, id) == SelectSeq(rows, LAMBDA row : row.subflight_id = id)

\* "last" for "first"
AggLast(group, column) == group[Len(group)][column]

AggFirst(group, column) == group[1][column]

RECURSIVE SumOf(_, _)
SumOf(group, column) ==
    IF group = <<>> THEN 0 ELSE group[1][column] + SumOf(Tail(group), column)

AggMean(group, column) == [num |-> SumOf(group, column), den |-> Len(group)]

Aggregated(rows) ==
    [id \in SubflightIds(rows) |->
        [c \in cols |-> AggFirst(Group(rows, id), c)]
        @@ [vertical_speed |-> AggMean(Group(rows, id), "vertical_speed")]]

(***************************************************************************)
(* Line 59: "takeoff" if x >= 0 else "landing", x the mean vertical speed.   *)
(***************************************************************************)
\* line 59 with > for >=
RwyEventStrict(x) == IF x.num > 0 THEN "takeoff" ELSE "landing"

RwyEvent(x) == IF x.num >= 0 THEN "takeoff" ELSE "landing"

(***************************************************************************)
(* Lines 60-67: display names.                                               *)
(***************************************************************************)
AirlineName(x) == Display(DictGet(AIRLINES, x, <<>>), x)

AircraftName(x) == Display(DictGet(AIRCRAFT, x, <<>>), x)

\* line 64 without the code in parentheses
get_airport_name_only(airport_iata) ==
    DictGet(AIRPORTS, airport_iata, [name |-> <<>>]).name

get_airport_name(airport_iata) ==
    Display(DictGet(AIRPORTS, airport_iata, [name |-> <<>>]).name, airport_iata)

(***************************************************************************)
(* Lines 69-77: match row["rwy_event"].                                      *)
(***************************************************************************)
\* lines 70-76 without the default case: connecting_airport stays unbound for
\* any other classification and the return raises UnboundLocalError
get_connecting_airport_no_default(row) ==
    CASE row.rwy_event = "landing" -> row.origin_airport
      [] row.rwy_event = "takeoff" -> row.destination_airport
      [] OTHER -> Raised

\* lines 71-74 with the two cases exchanged
get_connecting_airport_swapped(row) ==
    CASE row.rwy_event = "landing" -> row.destination_airport
      [] row.rwy_event = "takeoff" -> row.origin_airport
      [] OTHER -> <<"N", "/", "A">>

get_connecting_airport(row) ==
    CASE row.rwy_event = "landing" -> row.origin_airport
      [] row.rwy_event = "takeoff" -> row.destination_airport
      [] OTHER -> <<"N", "/", "A">>

(***************************************************************************)
(* Lines 81-96: the returned columns.                                        *)
(***************************************************************************)
ReturnedColumns == {"datetime", "airline", "aircraft", "origin_airport",
                    "destination_airport", "registration", "callsign", "number",
                    "rwy_event", "hour", "connecting_airport", "fr_id"}

Project(row, columns) == [c \in columns |-> row[c]]

Classified(table) ==
    [id \in DOMAIN table |->
        table[id] @@ [rwy_event |-> RwyEvent(table[id].vertical_speed)]]

Named(table) ==
    [id \in DOMAIN table |->
        table[id] @@ [airline |-> AirlineName(table[id].airline_icao),
                      aircraft |-> AircraftName(table[id].aircraft_code),
                      origin_airport |-> get_airport_name(table[id].origin_airport_iata),
                      destination_airport |->
                          get_airport_name(table[id].destination_airport_iata)]]

Connected(table) ==
    [id \in DOMAIN table |->
        table[id] @@ [connecting_airport |-> get_connecting_airport(table[id])]]

Returned(table) == [id \in DOMAIN table |-> Project(table[id], ReturnedColumns)]

\* the columns of toff_land when line 79 runs
AllColumnsBeforeLine79 ==
    cols \cup {"vertical_speed", "rwy_event", "airline", "aircraft",
              "origin_airport", "destination_airport"}

Aggregate ==
    /\ pc = "segmented"
    /\ toff_land' = Aggregated(gdf)
    /\ pc' = "aggregated"
    /\ UNCHANGED <<df, gdf, out, data, run2>>

Classify ==
    /\ pc = "aggregated"
    /\ toff_land' = Classified(toff_land)
    /\ pc' = "classified"
    /\ UNCHANGED <<df, gdf, out, data, run2>>

ResolveNames ==
    /\ pc = "classified"
    /\ toff_land' = Named(toff_land)
    /\ pc' = "named"
    /\ UNCHANGED <<df, gdf, out, data, run2>>

\* Lines 69-79.  apply(axis=1) of line 79 on a table without rows: see
\* ApplyOnEmpty.
ConnectingAirport ==
    /\ pc = "named"
    /\ IF /\ DOMAIN toff_land = {}
          /\ ApplyOnEmpty(get_connecting_airport(
                  ProbeRow(AllColumnsBeforeLine79))) = "DataFrame"
       THEN pc' = "error" /\ UNCHANGED toff_land
       ELSE pc' = "connected" /\ toff_land' = Connected(toff_land)
    /\ UNCHANGED <<df, gdf, out, data, run2>>

Return ==
    /\ pc = "connected"
    /\ out' = Returned(toff_land)
    /\ pc' = "done"
    /\ UNCHANGED <<df, gdf, toff_land, data, run2>>

(***************************************************************************)
(* Lines 152-160 and 213: map(filtered_df), with no filter chosen in the     *)
(* explorer of line 211, so that filtered_df is the returned table.  data is *)
(* keyed by connecting_airport, one row per group of line 154.               *)
(***************************************************************************)
\* the literal of line 154
NotAvailableDisplay == <<" ", "(", "N", "/", "A", ")">>

\* x[-4:-1] of line 156
AirportCodeOf(x) == SubSeq(x, Max({Len(x) - 4, 0}) + 1, Len(x) - 1)

MapRows(table) ==
    {id \in DOMAIN table : table[id].connecting_airport # NotAvailableDisplay}

MapGrouped(table) ==
    [x \in {table[id].connecting_airport : id \in MapRows(table)} |->
        [connecting_airport |-> x,
         fr_id |-> Cardinality({id \in MapRows(table) :
                                    table[id].connecting_airport = x}),
         airport_code |-> AirportCodeOf(x)]]

\* lines 157-164 on the grouped table, once every lookup of lines 157-158
\* has found its key
MapPositioned(grouped) ==
    LET counts == {grouped[x].fr_id : x \in DOMAIN grouped}
    IN  [x \in DOMAIN grouped |->
            grouped[x] @@
            [latitude |-> AIRPORTS[grouped[x].airport_code].latitude,
             longitude |-> AIRPORTS[grouped[x].airport_code].longitude,
             latitude_tls |-> AIRPORTS[TLS].latitude,
             longitude_tls |-> AIRPORTS[TLS].longitude,
             count_norm |-> [num |-> grouped[x].fr_id - Min(counts),
                             den |-> Max(counts)],
             width |-> [num |-> 2 * Max(counts)
                                  + (grouped[x].fr_id - Min(counts)) * 30,
                        den |-> Max(counts)]]]

\* AIRPORTS[x] of line 157 raises KeyError on a code that is not a key
Map ==
    /\ pc = "done"
    /\ IF \A x \in DOMAIN MapGrouped(out) :
              MapGrouped(out)[x].airport_code \in DOMAIN AIRPORTS
       THEN data' = MapPositioned(MapGrouped(out)) /\ pc' = "mapped"
       ELSE data' = MapGrouped(out) /\ pc' = "map_error"
    /\ UNCHANGED <<df, gdf, toff_land, out, run2>>

(***************************************************************************)
(* A second run of the function (a second script run, lines 205-206) on the  *)
(* same query result: the same statements on its own locals.                 *)
(***************************************************************************)
NextOfRun(r) ==
    CASE r.pc = "start" -> [r EXCEPT !.gdf = GeoFiltered(df), !.pc = "filtered"]
      [] r.pc = "filtered" -> [r EXCEPT !.gdf = Localized(r.gdf), !.pc = "localized"]
      [] r.pc = "localized" ->
            IF r.gdf = <<>> /\ ApplyOnEmpty(SubflightIdProbe) = "DataFrame"
            THEN [r EXCEPT !.pc = "error"]
            ELSE [r EXCEPT !.gdf = Segmented(r.gdf), !.pc = "segmented"]
      [] r.pc = "segmented" ->
            [r EXCEPT !.toff_land = Aggregated(r.gdf), !.pc = "aggregated"]
      [] r.pc = "aggregated" ->
            [r EXCEPT !.toff_land = Classified(r.toff_land), !.pc = "classified"]
      [] r.pc = "classified" ->
            [r EXCEPT !.toff_land = Named(r.toff_land), !.pc = "named"]
      [] r.pc = "named" ->
            IF /\ DOMAIN r.toff_land = {}
               /\ ApplyOnEmpty(get_connecting_airport(ProbeRow(AllColumnsBeforeLine79)))
                    = "DataFrame"
            THEN [r EXCEPT !.pc = "error"]
            ELSE [r EXCEPT !.toff_land = Connected(r.toff_land), !.pc = "connected"]
      [] r.pc = "connected" ->
            [r EXCEPT !.out = Returned(r.toff_land), !.pc = "done"]

SecondRun ==
    /\ run2.pc \notin {"done", "error"}
    /\ run2' = NextOfRun(run2)
    /\ df' = IF run2.pc = "start" THEN InputAfterGeoDataFrame(df) ELSE df
    /\ UNCHANGED <<gdf, toff_land, out, pc, data>>

Next ==
    \/ GeoFilter
    \/ Localize
    \/ Segment
    \/ Aggregate
    \/ Classify
    \/ ResolveNames
    \/ ConnectingAirport
    \/ Return
    \/ Map

Spec == Init /\ [][Next]_vars

\* Two runs on one query result, their steps interleaved in any order.
TwoRunTables ==
    Tables(SegPings, MaxTwoRunRows) \cup Tables(EnrichPings, MaxTwoRunRows)
    \cup {ScenarioTable}

InitTwoRuns == Init /\ df \in TwoRunTables

NextTwoRuns == Next \/ SecondRun

SpecTwoRuns == InitTwoRuns /\ [][NextTwoRuns]_vars

(***************************************************************************)
(* Vocabulary of the properties.                                             *)
(***************************************************************************)
AfterSegment == {"segmented", "aggregated", "classified", "named", "connected", "done"}

AfterAggregate == {"aggregated", "classified", "named", "connected", "done"}

Rows == 1..Len(gdf)

\* position of row i among the rows of its aircraft sorted by time, ties in row order
TimeRank(rows, i) ==
    Cardinality({k \in 1..Len(rows) :
                    /\ rows[k].fr_id = rows[i].fr_id
                    /\ \/ rows[k].time < rows[i].time
                       \/ rows[k].time = rows[i].time /\ k <= i})

ConsecutiveInTime(rows, i, j) ==
    /\ rows[i].fr_id = rows[j].fr_id
    /\ TimeRank(rows, j) = TimeRank(rows, i) + 1

\* the rows of every aircraft already come in ascending time order
RowsInTimeOrder(rows) ==
    \A i, j \in 1..Len(rows) :
        i < j /\ rows[i].fr_id = rows[j].fr_id => rows[i].time <= rows[j].time

\* the rows of the subflight id, by index
Members(id) == {i \in Rows : gdf[i].subflight_id = id}

\* C1: two pings of one aircraft that are consecutive in its time order and at
\* most 180 s apart have the same subflight_id, whatever rows of other aircraft
\* lie between them.  The claim is stated for every table; it is checked here
\* on the tables whose rows already are in time order, where it rests on the
\* running count of line 38 alone.
C1_ClosePingsShareSubflight ==
    (pc \in AfterSegment /\ RowsInTimeOrder(gdf)) =>
        \A i, j \in Rows :
            (ConsecutiveInTime(gdf, i, j) /\ gdf[j].time - gdf[i].time <= 180)
                => gdf[i].subflight_id = gdf[j].subflight_id

\* C2: the sequence numbers of one aircraft's subflights are, in time order,
\* 0, 1, 2, ...: its earliest ping has number 0 and each later ping has the
\* number of the ping before it, or that number plus one.  Checked, as C1, on
\* the tables whose rows already are in time order.
C2_NumbersFromZero ==
    (pc \in AfterSegment /\ RowsInTimeOrder(gdf)) =>
        \A j \in Rows :
            /\ TimeRank(gdf, j) = 1 => gdf[j].subflight_nb = 0
            /\ \A i \in Rows :
                 ConsecutiveInTime(gdf, i, j) =>
                     gdf[j].subflight_nb \in {gdf[i].subflight_nb, gdf[i].subflight_nb + 1}

\* C3: a ping whose time exceeds that of the previous row of the same aircraft
\* by strictly more than 180 s begins a subflight no earlier row belongs to; a
\* ping at most 180 s after it does not raise the boundary count; and the first
\* row of an aircraft has delta 0 and does not raise the boundary count.
NbBefore(i) == IF i = 1 THEN 0 ELSE gdf[i - 1].subflight_nb

C3_BoundaryStrictlyAbove ==
    pc \in AfterSegment =>
        \A i \in Rows :
            LET prev == {j \in 1..(i - 1) : gdf[j].fr_id = gdf[i].fr_id} IN
            IF prev = {}
            THEN gdf[i].ping_delta_t = 0 /\ gdf[i].subflight_nb = NbBefore(i)
            ELSE LET delta == gdf[i].time - gdf[Max(prev)].time IN
                 /\ delta > 180 =>
                      /\ gdf[i].subflight_nb = NbBefore(i) + 1
                      /\ \A k \in 1..(i - 1) : gdf[k].subflight_id # gdf[i].subflight_id
                 /\ delta <= 180 => gdf[i].subflight_nb = NbBefore(i)

\* a gap of exactly 180 s, a gap above it, and an aircraft first seen after a boundary
C3_Witness ==
    /\ pc = "segmented"
    /\ \E i \in Rows : gdf[i].ping_delta_t = 180
    /\ \E i \in Rows : gdf[i].ping_delta_t > 180
    /\ \E i \in Rows : gdf[i].subflight_nb > 0 /\ \A j \in 1..(i - 1) : gdf[j].fr_id # gdf[i].fr_id

\* C4: every ping that passes the zone test is in exactly one subflight, no
\* subflight is empty, and the pings of one subflight_id are of one aircraft.
InZoneRows == {i \in 1..Len(df) : Within(df[i], airport_zones)}

C4_Partition ==
    pc \in AfterAggregate =>
        /\ Len(gdf) = Cardinality(InZoneRows)
        /\ \A i \in Rows :
             Cardinality({id \in DOMAIN toff_land : i \in Members(id)}) = 1
        /\ \A id \in DOMAIN toff_land : Members(id) # {}
        /\ \A i, j \in Rows :
             gdf[i].subflight_id = gdf[j].subflight_id => gdf[i].fr_id = gdf[j].fr_id

\* two aircraft with the same sequence number, a subflight of several pings,
\* and a ping dropped by the zone test
C4_Witness ==
    /\ pc = "aggregated"
    /\ Len(gdf) < Len(df)
    /\ \E i, j \in Rows :
         gdf[i].fr_id # gdf[j].fr_id /\ gdf[i].subflight_nb = gdf[j].subflight_nb
    /\ \E id \in DOMAIN toff_land : Cardinality(Members(id)) >= 2

\* C5: whatever the order of the input rows, the subflights and the event built
\* from each are those obtained from the input sorted by aircraft, then time
\* (ties in input order), and the timestamp of each event is the earliest
\* timestamp of the pings of its subflight.
FirstRowOf(table, i) == Min({k \in 1..Len(table) : table[k].fr_id = table[i].fr_id})

SortsBefore(table, k, i) ==
    \/ FirstRowOf(table, k) < FirstRowOf(table, i)
    \/ /\ table[k].fr_id = table[i].fr_id
       /\ \/ table[k].time < table[i].time
          \/ table[k].time = table[i].time /\ k < i

SortedByAircraftThenTime(table) ==
    [p \in 1..Len(table) |->
        table[CHOOSE i \in 1..Len(table) :
                Cardinality({k \in 1..Len(table) : SortsBefore(table, k, i)}) = p - 1]]

\* the subflights of a segmented table, each with the event returned for it
SubflightsWithEvents(rows) ==
    LET events == Returned(Connected(Named(Classified(Aggregated(rows))))) IN
    {<<{Project(rows[i], DOMAIN df[1]) : i \in {k \in 1..Len(rows) : rows[k].subflight_id = id}},
       events[id]>> : id \in DOMAIN events}

C5_AsIfSorted ==
    pc = "done" =>
        /\ SubflightsWithEvents(gdf)
             = SubflightsWithEvents(
                 Segmented(Localized(GeoFiltered(SortedByAircraftThenTime(df)))))
        /\ \A id \in DOMAIN out :
             out[id].datetime.epoch = Min({gdf[i].time : i \in Members(id)})

RECURSIVE SumOver(_, _)
SumOver(S, f) ==
    IF S = {} THEN 0
    ELSE LET x == CHOOSE y \in S : TRUE IN f[x] + SumOver(S \ {x}, f)

VerticalSpeeds == [i \in Rows |-> gdf[i].vertical_speed]

C7_FirstPingAndMean ==
    pc \in AfterAggregate =>
        /\ DOMAIN toff_land = {gdf[i].subflight_id : i \in Rows}
        /\ \A id \in DOMAIN toff_land :
             LET first == gdf[Min(Members(id))] IN
             /\ \A c \in {"fr_id", "time", "datetime", "hour", "aircraft_code",
                          "registration", "origin_airport_iata",
                          "destination_airport_iata", "number", "airline_iata",
                          "airline_icao", "callsign"} :
                    toff_land[id][c] = first[c]
             /\ toff_land[id].vertical_speed.num = SumOver(Members(id), VerticalSpeeds)
             /\ toff_land[id].vertical_speed.den = Cardinality(Members(id))
             /\ pc = "done" =>
                  /\ DOMAIN out = DOMAIN toff_land
                  /\ \A c \in {"fr_id", "datetime", "hour", "registration",
                               "callsign", "number"} : out[id][c] = first[c]

\* a subflight of several pings that differ in every representative field but fr_id
C7_Witness ==
    /\ pc = "done"
    /\ \E id \in DOMAIN out :
         \E i, j \in Members(id) :
             /\ i < j
             /\ gdf[i].registration # gdf[j].registration
             /\ gdf[i].time # gdf[j].time
             /\ gdf[i].vertical_speed # gdf[j].vertical_speed

\* C8: an event is a "takeoff" when the mean vertical speed of its subflight is
\* >= 0, zero included, and a "landing" when it is < 0; the pings of ABC123 at
\* 0, 30, 60, 400, 430 s with vertical speeds +500, +400, +300, -200, -100 give
\* two events, a takeoff of mean +400 and a landing of mean -150.
AfterClassify == {"classified", "named", "connected", "done"}

ABC123_0 == ABC123 \o <<"_", "0">>
ABC123_1 == ABC123 \o <<"_", "1">>

C8_SignOfMean ==
    pc \in AfterClassify =>
        /\ \A id \in DOMAIN toff_land :
             LET total == SumOver(Members(id), VerticalSpeeds) IN
             /\ total >= 0 => toff_land[id].rwy_event = "takeoff"
             /\ total < 0 => toff_land[id].rwy_event = "landing"
        /\ df = ScenarioTable =>
             /\ DOMAIN toff_land = {ABC123_0, ABC123_1}
             /\ {gdf[i].time : i \in Members(ABC123_0)} = {0, 30, 60}
             /\ {gdf[i].time : i \in Members(ABC123_1)} = {400, 430}
             /\ toff_land[ABC123_0].vertical_speed.num
                  = 400 * toff_land[ABC123_0].vertical_speed.den
             /\ toff_land[ABC123_0].rwy_event = "takeoff"
             /\ toff_land[ABC123_1].vertical_speed.num
                  = (-150) * toff_land[ABC123_1].vertical_speed.den
             /\ toff_land[ABC123_1].rwy_event = "landing"
        /\ pc = "done" => \A id \in DOMAIN out : out[id].rwy_event = toff_land[id].rwy_event

\* the scenario, run to its end
C8_Witness ==
    /\ pc = "done"
    /\ df = ScenarioTable
    /\ Cardinality(DOMAIN out) = 2

\* C9: connecting_airport is the origin airport display name of a landing, the
\* destination airport display name of a takeoff and "N/A" for any other
\* classification; in every output event it is one of the event's own
\* origin_airport and destination_airport.
AfterConnect == {"connected", "done"}

C9_ConnectingAirport ==
    pc \in AfterConnect =>
        \A id \in DOMAIN toff_land :
            LET row == toff_land[id] IN
            /\ row.rwy_event = "landing" => row.connecting_airport = row.origin_airport
            /\ row.rwy_event = "takeoff" => row.connecting_airport = row.destination_airport
            /\ row.connecting_airport \in {row.origin_airport, row.destination_airport}
            /\ get_connecting_airport([row EXCEPT !.rwy_event = "taxi"]) = <<"N", "/", "A">>
            /\ pc = "done" =>
                 /\ out[id].connecting_airport = row.connecting_airport
                 /\ out[id].connecting_airport
                      \in {out[id].origin_airport, out[id].destination_airport}

\* a landing and a takeoff in one output
C9_Witness ==
    /\ pc = "done"
    /\ \E id \in DOMAIN out :
         /\ out[id].rwy_event = "landing"
         /\ out[id].origin_airport # out[id].destination_airport
    /\ \E id \in DOMAIN out : out[id].rwy_event = "takeoff"

\* C10: name resolution never fails and never drops a row: a code absent from
\* its reference table gives " (<code>)", a known code "<name> (<code>)", so
\* every display field is a non-empty string and there are as many output
\* records as subflights.
AfterNames == {"named", "connected", "done"}

Shown(name, code) == name \o <<" ", "(">> \o code \o <<")">>

NameIn(table, code) == IF code \in DOMAIN table THEN table[code] ELSE <<>>

AirportNameIn(code) == IF code \in DOMAIN AIRPORTS THEN AIRPORTS[code].name ELSE <<>>

C10_NamesAlwaysResolve ==
    /\ pc \in AfterNames =>
        /\ Cardinality(DOMAIN toff_land) = Cardinality({gdf[i].subflight_id : i \in Rows})
        /\ \A id \in DOMAIN toff_land :
             LET row == toff_land[id] IN
             /\ row.airline = Shown(NameIn(AIRLINES, row.airline_icao), row.airline_icao)
             /\ row.aircraft = Shown(NameIn(AIRCRAFT, row.aircraft_code), row.aircraft_code)
             /\ row.origin_airport
                  = Shown(AirportNameIn(row.origin_airport_iata), row.origin_airport_iata)
             /\ row.destination_airport
                  = Shown(AirportNameIn(row.destination_airport_iata),
                          row.destination_airport_iata)
             /\ row.airline_icao \notin DOMAIN AIRLINES
                  => row.airline = <<" ", "(">> \o row.airline_icao \o <<")">>
             /\ row.destination_airport_iata \notin DOMAIN AIRPORTS
                  => row.destination_airport
                       = <<" ", "(">> \o row.destination_airport_iata \o <<")">>
             /\ \A c \in {"airline", "aircraft", "origin_airport", "destination_airport"} :
                  Len(row[c]) > 0
    /\ pc = "done" =>
        /\ Cardinality(DOMAIN out) = Cardinality({gdf[i].subflight_id : i \in Rows})
        /\ \A id \in DOMAIN out :
             \A c \in {"airline", "aircraft", "origin_airport", "destination_airport",
                       "connecting_airport"} :
                 out[id][c] = toff_land[id][c] /\ Len(out[id][c]) > 0
    /\ (pc = "error" => gdf = <<>>)

\* an output with an event whose airline, aircraft and destination are unknown
\* and an event whose codes are all known
C10_Witness ==
    /\ pc = "done"
    /\ \E id \in DOMAIN out :
         /\ toff_land[id].airline_icao \notin DOMAIN AIRLINES
         /\ toff_land[id].aircraft_code \notin DOMAIN AIRCRAFT
         /\ toff_land[id].destination_airport_iata \notin DOMAIN AIRPORTS
         /\ out[id].destination_airport = <<" ", "(", "X", "Y", "Z", ")">>
    /\ \E id \in DOMAIN out :
         /\ toff_land[id].airline_icao \in DOMAIN AIRLINES
         /\ toff_land[id].origin_airport_iata \in DOMAIN AIRPORTS

\* C11: when the input holds no ping, or no ping passes the zone test, the run
\* ends normally with an empty output: it reaches no error state, holds no
\* subflight, and returns no runway event.
C11_EmptyInputEndsEmpty ==
    InZoneRows = {} =>
        /\ pc # "error"
        /\ gdf = <<>>
        /\ DOMAIN toff_land = {}
        /\ DOMAIN out = {}
        /\ pc \notin {"done", "mapped"} => ENABLED Next

\* a run to its end on a table whose pings are all outside the zone
C11_Witness ==
    /\ pc = "done"
    /\ df # <<>>
    /\ InZoneRows = {}
    /\ DOMAIN out = {}

InZoneIndexes ==
    SelectSeq([i \in 1..Len(df) |-> i], LAMBDA i : Within(df[i], airport_zones))

Src(k) == InZoneIndexes[k]

PrevInZone(i) == {j \in InZoneRows : j < i /\ df[j].fr_id = df[i].fr_id}

C13_OnlyInZonePings ==
    pc \in AfterSegment =>
        LET src == InZoneIndexes
            speeds == [k \in Rows |-> df[src[k]].vertical_speed]
        IN
        /\ Len(gdf) = Len(src)
        /\ \A k \in Rows :
             LET prev == PrevInZone(src[k])
             IN
             /\ Within(gdf[k], airport_zones)
             /\ Project(gdf[k], DOMAIN df[1]) = df[src[k]]
             /\ gdf[k].ping_delta_t =
                  IF prev = {} THEN 0 ELSE df[src[k]].time - df[Max(prev)].time
             /\ \A h \in Rows :
                  ( /\ prev # {}
                    /\ src[h] = Max(prev)
                    /\ df[src[k]].time - df[src[h]].time > 180 )
                      => gdf[k].subflight_id # gdf[h].subflight_id
        /\ pc \in AfterAggregate =>
             \A id \in DOMAIN toff_land :
                 /\ toff_land[id].vertical_speed.num = SumOver(Members(id), speeds)
                 /\ toff_land[id].vertical_speed.den = Cardinality(Members(id))
                 /\ \A c \in {"time", "registration", "callsign", "aircraft_code"} :
                      toff_land[id][c] = df[src[Min(Members(id))]][c]

\* two in-zone pings 181 s apart, an out-of-zone ping of the same aircraft
\* within 180 s of both between them, and the two in different subflights
C13_Witness ==
    /\ pc = "done"
    /\ \E i, j, k \in 1..Len(df) :
         /\ i < j /\ j < k
         /\ {i, k} \subseteq InZoneRows /\ j \notin InZoneRows
         /\ df[i].fr_id = df[j].fr_id /\ df[j].fr_id = df[k].fr_id
         /\ df[j].time - df[i].time \in 0..180
         /\ df[k].time - df[j].time \in 0..180
         /\ df[k].time - df[i].time > 180
         /\ \E h, l \in Rows :
              Src(h) = i /\ Src(l) = k /\ gdf[h].subflight_id # gdf[l].subflight_id

\* C14: map() looks up in AIRPORTS only codes that are keys of it: every event
\* whose connecting airport code is missing from the reference data is left
\* out of the grouped table before the lookups of lines 157-158, and the
\* lookups never fail.
ConnectingCode(id) ==
    CASE toff_land[id].rwy_event = "landing" -> toff_land[id].origin_airport_iata
      [] toff_land[id].rwy_event = "takeoff" -> toff_land[id].destination_airport_iata
      [] OTHER -> <<"N", "/", "A">>

C14_MapLooksUpKnownCodes ==
    /\ pc # "map_error"
    /\ pc \in {"mapped", "map_error"} =>
         /\ \A x \in DOMAIN data : data[x].airport_code \in DOMAIN AIRPORTS
         /\ \A id \in DOMAIN out :
              ConnectingCode(id) \notin DOMAIN AIRPORTS
                  => out[id].connecting_airport \notin DOMAIN data
====
